---- MODULE Spec2Model ----
(***************************************************************************)
(* Model of the bib-search extension (src/src/extension.ts): one search    *)
(* session of searchQueryHandler, from the fetch of the raw payload to the *)
(* snippets inserted into the active editor.                               *)
(*                                                                         *)
(* A JavaScript string is modelled as the sequence of its characters, each *)
(* character being a one-character TLA+ string; `undefined' is the value   *)
(* UNDEFINED.  Strings fixed by the program (category names, field names,  *)
(* configuration values, messages) are TLA+ strings.                       *)
(***************************************************************************)
EXTENDS Integers, Sequences, FiniteSets, TLC

VARIABLES
    config,            \* value of the bib-search.publicationDatabase setting
    network,           \* TRUE iff axios.get resolves for this session
    html,              \* the .gs_r nodes of the Google Scholar page
    xml,               \* what xml2js makes of the DBLP response
    activeTextEditor,  \* TRUE iff vscode.window.activeTextEditor is defined
    pc,                \* position of searchQueryHandler
    searchResults,     \* the array returned by searchPublicationDatabase
    quickPickOptions,  \* the array returned by createQuickPickOptions
    builtFrom,         \* history: for each option, the index in searchResults of the Publication it was built from (0: separator)
    selections,        \* what showQuickPick resolved to, as positions in quickPickOptions
    i,                 \* number of selections the for-loop has finished
    resolved,          \* history: for each loop iteration, the position selected, the index used in searchResults, whether there was an editor and whether a snippet was written
    sink,              \* the snippets inserted in the editor, in order
    messages,          \* the showErrorMessage and showInformationMessage calls, in order
    stages,            \* history: the stages this session has performed
    thrown,            \* the error searchQueryHandler rejected with, "" if none
    command,           \* the command that was run: each of the two has its own searchQueryHandler
    rawAuthor,         \* an author string given to the strip step on its own
    stripped           \* the results of the successive applications of the strip step to rawAuthor

vars == <<config, network, html, xml, activeTextEditor, pc, searchResults,
          quickPickOptions, builtFrom, selections, i, resolved, sink,
          messages, stages, thrown, command, rawAuthor, stripped>>

-----------------------------------------------------------------------------
(* Bounds of the model.                                                    *)

\* longest hit list of a DBLP payload and longest node list of a Scholar page
MaxHits == 3

\* longest author string given to the strip step on its own
MaxAuthorLen == 5

\* number of successive applications of the strip step
MaxStrips == 2

-----------------------------------------------------------------------------
(* JavaScript strings.                                                     *)

UNDEFINED == <<"<undefined>">>

Lower == <<"a","b","c","d","e","f","g","h","i","j","k","l","m","n","o","p","q","r","s","t","u","v","w","x","y","z">>
Upper == <<"A","B","C","D","E","F","G","H","I","J","K","L","M","N","O","P","Q","R","S","T","U","V","W","X","Y","Z">>
Digit == <<"0","1","2","3","4","5","6","7","8","9">>

Range(s) == {s[k] : k \in DOMAIN s}

IndexIn(t, c) == CHOOSE k \in DOMAIN t : t[k] = c

IsDigit(c) == c \in Range(Digit)

IsUpper(c) == c \in Range(Upper)

Min(a, b) == IF a < b THEN a ELSE b

\* String.prototype.toLowerCase
toLowerCase(s) ==
    [k \in DOMAIN s |-> IF IsUpper(s[k]) THEN Lower[IndexIn(Upper, s[k])] ELSE s[k]]

\* String.prototype.substring(from, to), 0 <= from <= to
substring(s, from, to) == SubSeq(s, from + 1, Min(to, Len(s)))

\* String.prototype.includes
includes(s, sub) ==
    \E k \in 0..(Len(s) - Len(sub)) : SubSeq(s, k + 1, k + Len(sub)) = sub

\* String.prototype.split(sep) for a one-character separator
RECURSIVE split(_, _)
split(s, sep) ==
    IF \A k \in DOMAIN s : s[k] # sep
    THEN <<s>>
    ELSE LET k == CHOOSE j \in DOMAIN s : s[j] = sep /\ \A m \in 1..(j - 1) : s[m] # sep
         IN  <<SubSeq(s, 1, k - 1)>> \o split(SubSeq(s, k + 1, Len(s)), sep)

\* what Array.prototype.join and template literals make of an element
str(v) == IF v = UNDEFINED THEN <<"u","n","d","e","f","i","n","e","d">> ELSE v

\* Array.prototype.join: an undefined element is joined as the empty string
RECURSIVE join(_, _)
join(parts, sep) ==
    IF Len(parts) = 0 THEN <<>>
    ELSE LET h == IF Head(parts) = UNDEFINED THEN <<>> ELSE Head(parts)
         IN  IF Len(parts) = 1 THEN h ELSE h \o sep \o join(Tail(parts), sep)

\* s.match(/^\d+$/) is not null
matchAllDigits(s) == Len(s) >= 1 /\ \A k \in DOMAIN s : IsDigit(s[k])

\* s.match(/\d{4}/)?.[0] || ''
matchYear(s) ==
    LET at(k) == \A m \in k..(k + 3) : IsDigit(s[m])
        hits  == {k \in 1..(Len(s) - 3) : at(k)}
    IN  IF hits = {} THEN <<>>
        ELSE LET k == CHOOSE j \in hits : \A m \in hits : j <= m
             IN  SubSeq(s, k, k + 3)

\* s.replace(/ /g, "_")
replaceSpaces(s) == [k \in DOMAIN s |-> IF s[k] = " " THEN "_" ELSE s[k]]

\* a JavaScript number that is an integer, or NaN
NaN == [nan |-> TRUE, n |-> 0]

Num(n) == [nan |-> FALSE, n |-> n]

HexLetter == <<"a","b","c","d","e","f">>

\* the value of c as a digit of the radix (10 or 16), -1 if it is none
digitOf(c, radix) ==
    IF IsDigit(c) THEN IndexIn(Digit, c) - 1
    ELSE IF radix = 16 /\ c \in Range(HexLetter) THEN 9 + IndexIn(HexLetter, c)
    ELSE IF radix = 16 /\ IsUpper(c) /\ Lower[IndexIn(Upper, c)] \in Range(HexLetter)
    THEN 9 + IndexIn(HexLetter, Lower[IndexIn(Upper, c)])
    ELSE 0 - 1

\* the value of the longest prefix of s made of digits of the radix
RECURSIVE radixValue(_, _, _)
radixValue(s, radix, acc) ==
    IF Len(s) = 0 \/ digitOf(Head(s), radix) < 0 THEN acc
    ELSE radixValue(Tail(s), radix, radix * acc + digitOf(Head(s), radix))

digitsValue(s, acc) == radixValue(s, 10, acc)

\* parseInt: the digits of the radix at the start of s, NaN if there is none
parseRadix(s, radix, negative) ==
    IF Len(s) = 0 \/ digitOf(s[1], radix) < 0 THEN NaN
    ELSE IF negative THEN Num(0 - radixValue(s, radix, 0))
    ELSE Num(radixValue(s, radix, 0))

\* parseInt, for a string without its sign: after 0x or 0X the radix is 16
parseDigits(body, negative) ==
    IF Len(body) >= 2 /\ body[1] = "0" /\ body[2] \in {"x", "X"}
    THEN parseRadix(SubSeq(body, 3, Len(body)), 16, negative)
    ELSE parseRadix(body, 10, negative)

\* parseInt, for a string without leading white space
parseSigned(s) ==
    IF Len(s) >= 1 /\ s[1] \in {"+", "-"} THEN parseDigits(Tail(s), s[1] = "-")
    ELSE parseDigits(s, FALSE)

\* U+000B, the vertical tab, written as the character itself
VerticalTab == ""

\* the white space and line terminators beyond ASCII, each character
\* written as its code point
NonAsciiWhiteSpace ==
    {"U+00A0", "U+1680", "U+2000", "U+2001", "U+2002", "U+2003", "U+2004", "U+2005",
     "U+2006", "U+2007", "U+2008", "U+2009", "U+200A", "U+2028", "U+2029", "U+202F",
     "U+205F", "U+3000", "U+FEFF"}

\* StrWhiteSpaceChar: WhiteSpace and LineTerminator
WhiteSpace == {" ", "\t", "\n", "\r", "\f", VerticalTab} \cup NonAsciiWhiteSpace

RECURSIVE trimStart(_)
trimStart(s) ==
    IF Len(s) >= 1 /\ Head(s) \in WhiteSpace THEN trimStart(Tail(s)) ELSE s

\* parseInt(s) without radix: leading white space is skipped, then an
\* optional sign, an optional 0x or 0X, and the longest prefix of digits
parseInt(s) ==
    IF s = UNDEFINED THEN NaN ELSE parseSigned(trimStart(s))

\* String.prototype.localeCompare in the root collation (ICU, locale "en"):
\* the strings are compared by primary weight first (punctuation, then
\* digits, then letters regardless of case), and strings equal at that
\* level are compared by case, lower case first.
Collation == <<" ","_","-",",",".">> \o Digit \o Lower

primary(c) == IndexIn(Collation, IF IsUpper(c) THEN Lower[IndexIn(Upper, c)] ELSE c)

tertiary(c) == IF IsUpper(c) THEN 1 ELSE 0

\* lexicographic comparison of two sequences of integers: -1, 0 or 1
RECURSIVE lexCompare(_, _)
lexCompare(a, b) ==
    IF Len(a) = 0 /\ Len(b) = 0 THEN 0
    ELSE IF Len(a) = 0 THEN 0 - 1
    ELSE IF Len(b) = 0 THEN 1
    ELSE IF Head(a) < Head(b) THEN 0 - 1
    ELSE IF Head(a) > Head(b) THEN 1
    ELSE lexCompare(Tail(a), Tail(b))

localeCompare(a, b) ==
    LET p == lexCompare([k \in DOMAIN a |-> primary(a[k])], [k \in DOMAIN b |-> primary(b[k])])
    IN  IF p # 0 THEN p
        ELSE lexCompare([k \in DOMAIN a |-> tertiary(a[k])], [k \in DOMAIN b |-> tertiary(b[k])])

-----------------------------------------------------------------------------
(* interface Publication and the payloads of the two backends.             *)

Publication(title, authors, year, booktitle, pages, doi, type) ==
    [title |-> title, authors |-> authors, year |-> year, booktitle |-> booktitle,
     pages |-> pages, doi |-> doi, type |-> type]

PUBLICATION_DATABASE_OPTION_GOOGLE_SCHOLAR == "Google Scholar"

PUBLICATION_DATABASE_OPTION_DBLP == "DBLP"

\* A property of an xml2js node: absent, or the array of its children.
Absent == [p |-> FALSE, v |-> <<>>]

Arr(v) == [p |-> TRUE, v |-> v]

\* A .gs_r node: the text of ".gs_rt a", the text of ".gs_a" and the href of
\* the "cited by" link (UNDEFINED when the node has none).
Node(rt, a, href) == [gs_rt |-> rt, gs_a |-> a, href |-> href]

\* parseGoogleScholarHTML: the callback of searchResultNodes.each
parseNode(element) ==
    LET title     == element.gs_rt
        authors   == split(split(element.gs_a, "-")[1], ",")
        year      == matchYear(element.gs_a)
        parts     == split(element.gs_a, "-")
        booktitle == IF Len(parts) >= 2 THEN parts[2] ELSE UNDEFINED
        pages     == <<>>
        doi       == element.href
    IN  IF title = <<>> \/ Len(authors) = 0 \/ year = <<>>
        THEN <<>>
        ELSE <<Publication(title, authors, year, booktitle, pages, doi, <<>>)>>

RECURSIVE parseGoogleScholarHTML(_)
parseGoogleScholarHTML(nodes) ==
    IF Len(nodes) = 0 THEN <<>>
    ELSE parseNode(Head(nodes)) \o parseGoogleScholarHTML(Tail(nodes))

\* noHits, were the hit list itself not looked at
noHits_withoutHitList(result) ==
    \/ ~result.hits.p
    \/ Len(result.hits.v) = 0

\* parseDBLPXML: "No results found." branch
noHits(result) ==
    LET hits == result.hits
    IN  \/ ~hits.p
        \/ Len(hits.v) = 0
        \/ ~hits.v[1].hit.p
        \/ Len(hits.v[1].hit.v) = 0

\* parseDBLPXML: the hits.map callback skips the hit (returns undefined)
skipsHit(info) ==
    \/ ~info.title.p \/ ~info.authors.p \/ ~info.year.p
    \/ Len(info.title.v) = 0 \/ Len(info.authors.v) = 0 \/ Len(info.year.v) = 0

\* parseDBLPXML: info.authors[0].author.map throws a TypeError
hitThrows(info) == ~skipsHit(info) /\ ~info.authors.v[1].author.p

\* parseDBLPXML: the entry the hits.map callback returns for a hit it keeps
hitEntry(info) ==
    LET authors == [k \in DOMAIN info.authors.v[1].author.v |-> info.authors.v[1].author.v[k].text]
        venue   == IF info.venue.p /\ Len(info.venue.v) > 0 THEN info.venue.v[1] ELSE <<>>
        pages   == IF info.pages.p /\ Len(info.pages.v) > 0 THEN info.pages.v[1] ELSE <<>>
        doi     == IF info.doi.p /\ Len(info.doi.v) > 0 THEN info.doi.v[1] ELSE <<>>
        type    == IF info.type.p /\ Len(info.type.v) > 0 THEN info.type.v[1] ELSE <<>>
    IN  Publication(info.title.v[1], authors, info.year.v[1], venue, pages, doi, type)

\* parseDBLPXML: hits[0].hit.map, reached past the "No results found."
\* branch, is called on undefined
hitsMapThrows(result) ==
    \/ ~result.hits.p
    \/ Len(result.hits.v) = 0
    \/ ~result.hits.v[1].hit.p

\* parseDBLPXML throws a TypeError, in hits.map or in one of its callbacks
\* (Promise.all(dataPromises) then rejects)
dblpThrows(result) ==
    /\ ~noHits(result)
    /\ \/ hitsMapThrows(result)
       \/ \E k \in DOMAIN result.hits.v[1].hit.v : hitThrows(result.hits.v[1].hit.v[k])

RECURSIVE keptEntries(_)
keptEntries(hit) ==
    IF Len(hit) = 0 THEN <<>>
    ELSE (IF skipsHit(Head(hit)) THEN <<>> ELSE <<hitEntry(Head(hit))>>) \o keptEntries(Tail(hit))

\* parseDBLPXML, for a document xml2js could parse and no hit throws
parseDBLPXML(result) ==
    IF noHits(result) THEN <<>> ELSE keptEntries(result.hits.v[1].hit.v)

-----------------------------------------------------------------------------
(* createQuickPickOptions.                                                 *)

\* transformPublication: one author of the detail line
displayAuthor(author, isAuthorListTooLong) ==
    LET authorParts == split(author, " ")
        lastName    == authorParts[Len(authorParts)]
        popped      == IF matchAllDigits(lastName)
                       THEN SubSeq(authorParts, 1, Len(authorParts) - 1)
                       ELSE authorParts
        initial     == IF Len(popped[1]) = 0 THEN <<"u","n","d","e","f","i","n","e","d">> ELSE <<popped[1][1]>>
    IN  IF Len(authorParts) = 1 THEN authorParts[1]
        ELSE IF isAuthorListTooLong THEN initial \o <<"."," ">> \o join(Tail(popped), <<" ">>)
        ELSE join(popped, <<" ">>)

\* transformPublication throws a TypeError: booktitle.length or author.split
\* is taken of undefined
transformThrows(publication) ==
    \/ publication.booktitle = UNDEFINED
    \/ \E k \in DOMAIN publication.authors : publication.authors[k] = UNDEFINED

\* transformPublication: the QuickPickItem it returns
transformPublication(publication) ==
    LET tooLong      == Len(publication.title) + Len(publication.booktitle) > 75
        displayTitle == IF tooLong THEN substring(publication.title, 0, 60) \o <<".",".",".">>
                        ELSE publication.title
        displayVenue == IF tooLong THEN substring(publication.booktitle, 0, 15)
                        ELSE publication.booktitle
        isAuthorListTooLong == Len(join(publication.authors, <<","," ">>)) > 80
        displayAuthors ==
            join([k \in DOMAIN publication.authors |->
                     displayAuthor(publication.authors[k], isAuthorListTooLong)], <<","," ">>)
    IN  [label |-> displayTitle,
         description |-> displayVenue \o <<" ">> \o publication.year,
         detail |-> displayAuthors]

\* publicationAfterTransform, were the truncation assigned to the Publication
publicationAfterTransform_truncated(publication) ==
    IF Len(publication.title) + Len(publication.booktitle) > 75
    THEN [publication EXCEPT !.title = substring(publication.title, 0, 60) \o <<".",".",".">>,
                             !.booktitle = substring(publication.booktitle, 0, 15)]
    ELSE publication

\* transformPublication: the Publication it was given, after the call (the
\* function assigns only to its locals displayTitle, displayVenue and
\* authorParts, the latter a fresh array made by split)
publicationAfterTransform(publication) == publication

Categories == <<"Conference and Workshop Papers", "Journal Articles", "Other Articles">>

\* categoryOf, were "journal" looked for before "conference"
categoryOf_journalFirst(pub) ==
    IF pub.type # UNDEFINED /\ includes(toLowerCase(pub.type), <<"j","o","u","r","n","a","l">>)
    THEN "Journal Articles"
    ELSE IF pub.type # UNDEFINED /\ includes(toLowerCase(pub.type), <<"c","o","n","f","e","r","e","n","c","e">>)
    THEN "Conference and Workshop Papers"
    ELSE "Other Articles"

\* categorizePublications: the category the forEach callback pushes pub to
categoryOf(pub) ==
    IF pub.type # UNDEFINED /\ includes(toLowerCase(pub.type), <<"c","o","n","f","e","r","e","n","c","e">>)
    THEN "Conference and Workshop Papers"
    ELSE IF pub.type # UNDEFINED /\ includes(toLowerCase(pub.type), <<"j","o","u","r","n","a","l">>)
    THEN "Journal Articles"
    ELSE "Other Articles"

RECURSIVE indicesOf(_, _, _)
indicesOf(publications, category, k) ==
    IF k > Len(publications) THEN <<>>
    ELSE (IF categoryOf(publications[k]) = category THEN <<k>> ELSE <<>>)
         \o indicesOf(publications, category, k + 1)

\* categorizePublications: categories[category], as the indices in
\* publications of its members, in the order they were pushed
categorizePublications(publications) ==
    [category \in Range(Categories) |-> indicesOf(publications, category, 1)]

\* sortByYearAndTitle: what the comparator returns for the two parsed years
compareYears(aYear, bYear, a, b) ==
    IF aYear.nan \/ bYear.nan THEN NaN
    ELSE IF aYear.n # bYear.n THEN Num(bYear.n - aYear.n)
    ELSE Num(localeCompare(a.label, b.label))

\* sortByYearAndTitle: the comparator given to Array.prototype.sort
compareItems(a, b) ==
    compareYears(parseInt(split(a.description, " ")[2]),
                 parseInt(split(b.description, " ")[2]), a, b)

\* Array.prototype.sort reads a NaN from the comparator as 0
numberOrZero(v) == IF v.nan THEN 0 ELSE v.n

\* Array.prototype.sort calls the comparator.  The elements sorted are pairs
\* [item, from]: the QuickPickItem and, as history, the index of the
\* Publication it was built from.
order(x, y) == numberOrZero(compareItems(x.item, y.item))

Reverse(s) == [k \in DOMAIN s |-> s[Len(s) + 1 - k]]

\* Array.prototype.sort (V8, fewer than 64 elements): the leading run is
\* found and, when strictly descending, reversed ...
continuesRun(o, isDescending) == IF isDescending THEN o < 0 ELSE o >= 0

RECURSIVE runEnd(_, _, _)
runEnd(a, k, isDescending) ==
    IF k > Len(a) THEN k - 1
    ELSE IF continuesRun(order(a[k], a[k - 1]), isDescending)
    THEN runEnd(a, k + 1, isDescending)
    ELSE k - 1

\* ... and every later element is inserted where a binary search puts it.
RECURSIVE searchSlot(_, _, _, _)
searchSlot(a, pivot, left, right) ==
    IF left >= right THEN left
    ELSE IF order(pivot, a[left + ((right - left) \div 2) + 1]) < 0
    THEN searchSlot(a, pivot, left, left + ((right - left) \div 2))
    ELSE searchSlot(a, pivot, left + ((right - left) \div 2) + 1, right)

insertAt(a, start, left) ==
    SubSeq(a, 1, left) \o <<a[start + 1]>> \o SubSeq(a, left + 1, start)
    \o SubSeq(a, start + 2, Len(a))

RECURSIVE binaryInsertionSort(_, _)
binaryInsertionSort(a, start) ==
    IF start >= Len(a) THEN a
    ELSE binaryInsertionSort(insertAt(a, start, searchSlot(a, a[start + 1], 0, start)), start + 1)

makeRun(a, run, isDescending) ==
    IF isDescending THEN Reverse(SubSeq(a, 1, run)) \o SubSeq(a, run + 1, Len(a)) ELSE a

sortFromRun(a, run, isDescending) == binaryInsertionSort(makeRun(a, run, isDescending), run)

sortWithDirection(a, isDescending) == sortFromRun(a, runEnd(a, 3, isDescending), isDescending)

arraySort(a) == IF Len(a) < 2 THEN a ELSE sortWithDirection(a, order(a[2], a[1]) < 0)

sortByYearAndTitle(items) == arraySort(items)

\* createQuickPickOptions: the items pushed for one category
RECURSIVE blocks(_, _, _)
blocks(results, categorizedItems, c) ==
    IF c > Len(Categories) THEN <<>>
    ELSE LET category == Categories[c]
             members  == categorizedItems[category]
             publicationsTransformedToQuickPickItems ==
                 [k \in DOMAIN members |->
                     [item |-> transformPublication(results[members[k]]), from |-> members[k]]]
         IN  (IF Len(members) > 0
              THEN <<[item |-> [label |-> category, kind |-> "Separator"], from |-> 0]>>
                   \o sortByYearAndTitle(publicationsTransformedToQuickPickItems)
              ELSE <<>>)
             \o blocks(results, categorizedItems, c + 1)

\* createQuickPickOptions throws
createQuickPickOptionsThrows(results) ==
    \E k \in DOMAIN results : transformThrows(results[k])

\* createQuickPickOptions: the array it returns (quickPickOptions), for each
\* option the Publication it was built from (builtFrom), and the argument
\* array after the call (searchResults)
createQuickPickOptions(results) ==
    LET tagged == blocks(results, categorizePublications(results), 1)
    IN  [quickPickOptions |-> [k \in DOMAIN tagged |-> tagged[k].item],
         builtFrom        |-> [k \in DOMAIN tagged |-> tagged[k].from],
         searchResults    |-> [k \in DOMAIN results |-> publicationAfterTransform(results[k])]]

isSeparator(item) == "kind" \in DOMAIN item

-----------------------------------------------------------------------------
(* searchQueryHandler: the snippet of one selection.                       *)

\* what reading past the end of searchResults gives
UndefinedPublication == [undefined |-> TRUE]

\* searchQueryHandler: searchResults[quickPickOptions.indexOf(selection)],
\* the selection being the option at position pos (counted from 1, so that
\* indexOf is pos - 1 and the element read is the pos-th of searchResults)
originalPublication(results, pos) ==
    IF pos <= Len(results) THEN results[pos] ELSE UndefinedPublication

\* searchQueryHandler: the array that filteredPublication.authors.map makes
\* (and that the handler does not keep)
strippedAuthors(authors) ==
    [k \in DOMAIN authors |->
        LET authorParts == split(authors[k], " ")
            lastName    == authorParts[Len(authorParts)]
        IN  IF Len(authorParts) = 1 THEN authorParts[1]
            ELSE IF matchAllDigits(lastName)
            THEN join(SubSeq(authorParts, 1, Len(authorParts) - 1), <<" ">>)
            ELSE join(authorParts, <<" ">>)]

\* stripAuthor, were the last token dropped whatever it is
stripAuthor_alwaysPops(name) ==
    IF Len(split(name, " ")) = 1 THEN name
    ELSE join(SubSeq(split(name, " "), 1, Len(split(name, " ")) - 1), <<" ">>)

\* searchQueryHandler: the callback of filteredPublication.authors.map,
\* what it returns for one author (transformPublication does the same
\* before it abbreviates)
stripAuthor(name) == strippedAuthors(<<name>>)[1]

\* searchQueryHandler: filteredPublication is another name of
\* originalPublication, and map does not change the array it is called on
filteredPublication(publication) == publication

\* searchQueryHandler: the template literal, as the entry type, the key and
\* the fields in the order written
bibtex(publication) ==
    LET p == filteredPublication(publication)
    IN  [entry  |-> "inproceedings",
         key    |-> toLowerCase(replaceSpaces(str(p.authors[1]))) \o str(p.year),
         fields |-> << <<"title", str(p.title)>>,
                       <<"author", join(p.authors, <<" ","a","n","d"," ">>)>>,
                       <<"year", str(p.year)>>,
                       <<"booktitle", str(p.booktitle)>> >>]

\* first variant, parseGoogleScholarHTML: the callback of
\* searchResultNodes.each; every node is kept
parseNodeFirst(element) ==
    LET parts == split(element.gs_a, "-")
    IN  [title     |-> element.gs_rt,
         authors   |-> split(parts[1], ","),
         year      |-> matchYear(element.gs_a),
         booktitle |-> IF Len(parts) >= 2 THEN parts[2] ELSE UNDEFINED,
         pages     |-> <<>>,
         doi       |-> element.href]

parseGoogleScholarHTMLFirst(nodes) == [k \in DOMAIN nodes |-> parseNodeFirst(nodes[k])]

\* first variant, createQuickPickOptions: one string per Publication
quickPickOptionFirst(publication) ==
    publication.title \o <<" ">> \o join(publication.authors, <<",", " ">>)
        \o <<" ", "(">> \o publication.year \o <<")">>

createQuickPickOptionsFirst(results) == [k \in DOMAIN results |-> quickPickOptionFirst(results[k])]

\* Array.prototype.indexOf on strings, counted from 1: the first position
\* that holds an equal string
indexOf(options, selection) ==
    CHOOSE k \in DOMAIN options :
        /\ options[k] = selection
        /\ \A j \in 1..(k - 1) : options[j] # selection

\* String.prototype.replace(" ", "_"): the first space only
RECURSIVE replaceSpace(_)
replaceSpace(s) ==
    IF Len(s) = 0 THEN s
    ELSE IF Head(s) = " " THEN <<"_">> \o Tail(s)
    ELSE <<Head(s)>> \o replaceSpace(Tail(s))

\* first variant, searchQueryHandler: the template literal
bibtexFirst(publication) ==
    [entry  |-> "inproceedings",
     key    |-> toLowerCase(replaceSpace(publication.authors[1])) \o publication.year,
     fields |-> << <<"title", publication.title>>,
                   <<"author", join(publication.authors, <<" ","a","n","d"," ">>)>>,
                   <<"year", publication.year>>,
                   <<"booktitle", str(publication.booktitle)>> >>]

-----------------------------------------------------------------------------
(* The payloads a session is run on.                                       *)

Author(name) == [text |-> name]

Authors(names) == Arr(<<[author |-> Arr([k \in DOMAIN names |-> Author(names[k])])]>>)

Info(title, authors, year, venue, pages, doi, type) ==
    [title |-> title, authors |-> authors, year |-> year, venue |-> venue,
     pages |-> pages, doi |-> doi, type |-> type]

One(s) == Arr(<<s>>)

HitAttention ==
    Info(One(<<"A","t","t","e","n","t","i","o","n"," ","I","s"," ","A","l","l"," ","Y","o","u"," ","N","e","e","d">>),
         Authors(<<<<"A","s","h","i","s","h"," ","V","a","s","w","a","n","i"," ","8","3">>, <<"N","o","a","m"," ","S","h","a","z","e","e","r">>>>),
         One(<<"2","0","1","7">>), One(<<"N","e","u","r","I","P","S">>), One(<<"5","9","9","8","-","6","0","0","8">>), One(<<"1","0",".","5","5","5","5","/","3","2","9","5","2","2","2">>),
         One(<<"C","o","n","f","e","r","e","n","c","e"," ","a","n","d"," ","W","o","r","k","s","h","o","p"," ","P","a","p","e","r","s">>))

HitBert ==
    Info(One(<<"B","E","R","T">>), Authors(<<<<"J","a","c","o","b"," ","D","e","v","l","i","n">>, <<"M","i","n","g"," ","W","e","i"," ","C","h","a","n","g"," ","0","0","0","1">>>>),
         One(<<"2","0","1","9">>), One(<<"N","A","A","C","L"," ","H","L","T">>), Absent, Absent,
         One(<<"C","o","n","f","e","r","e","n","c","e"," ","a","n","d"," ","W","o","r","k","s","h","o","p"," ","P","a","p","e","r","s">>))

HitAdam ==
    Info(One(<<"a","d","a","m">>), Authors(<<<<"K","i","n","g","m","a">>>>),
         One(<<"2","0","1","5">>), One(<<"J"," ","M","a","c","h"," ","L","e","a","r","n"," ","R","e","s">>), One(<<"1","-","1","5">>), Absent,
         One(<<"J","o","u","r","n","a","l"," ","A","r","t","i","c","l","e","s">>))

HitZero ==
    Info(One(<<"Z","e","r","o"," ","s","h","o","t"," ","l","e","a","r","n","i","n","g">>), Authors(<<<<"A","d","a"," ","L","o","v","e","l","a","c","e">>>>),
         One(<<"2","0","1","9">>), Absent, Absent, One(<<"1","0",".","1","0","0","0","/","1">>), Absent)

HitLong ==
    Info(One(<<"d","e","e","p"," ","r","e","s","i","d","u","a","l"," ","l","e","a","r","n","i","n","g"," ","f","o","r"," ","i","m","a","g","e"," ","r","e","c","o","g","n","i","t","i","o","n"," ","i","n"," ","v","e","r","y"," ","d","e","e","p"," ","n","e","u","r","a","l"," ","n","e","t","w","o","r","k","s">>),
         Authors(<<<<"K","a","i","m","i","n","g"," ","H","e"," ","0","0","0","1">>, <<"X","i","a","n","g","y","u"," ","Z","h","a","n","g">>, <<"S","h","a","o","q","i","n","g"," ","R","e","n"," ","1","2">>, <<"J","i","a","n"," ","S","u","n">>,
                   <<"C","h","r","i","s","t","i","a","n"," ","S","z","e","g","e","d","y">>, <<"V","i","n","c","e","n","t"," ","V","a","n","h","o","u","c","k","e">>>>),
         One(<<"2","0","1","7">>), One(<<"I","E","E","E"," ","C","o","n","f"," ","C","o","m","p"," ","V","i","s","i","o","n">>), Absent, Absent,
         One(<<"J","o","u","r","n","a","l"," ","a","n","d"," ","C","o","n","f","e","r","e","n","c","e">>))

HitNoTitle ==
    Info(Absent, Authors(<<<<"A","d","a"," ","L","o","v","e","l","a","c","e">>>>), One(<<"2","0","1","9">>), Absent, Absent, Absent, Absent)

HitNoYear ==
    Info(One(<<"U","n","d","a","t","e","d">>), Authors(<<<<"A","d","a"," ","L","o","v","e","l","a","c","e">>>>), One(<<>>), Absent, Absent, Absent,
         One(<<"I","n","f","o","r","m","a","l"," ","a","n","d"," ","O","t","h","e","r"," ","P","u","b","l","i","c","a","t","i","o","n","s">>))

HitNoAuthor ==
    Info(One(<<"A","n","o","n","y","m","o","u","s">>), Arr(<<[author |-> Absent]>>), One(<<"2","0","1","9">>), Absent, Absent, Absent, Absent)

HitPlainAuthor ==
    Info(One(<<"P","l","a","i","n">>), Arr(<<[author |-> Arr(<<Author(UNDEFINED)>>)]>>), One(<<"2","0","1","9">>),
         Absent, Absent, Absent, Absent)

\* a venue whose second word parseInt reads as the hexadecimal number 2020
HitHex ==
    Info(One(<<"H","e","x">>), Authors(<<<<"G","r","a","c","e"," ","H","o","p","p","e","r">>>>), One(<<"2","0","1","6">>), One(<<"P","r","o","c"," ","0","x","7","E","4">>),
         Absent, Absent, One(<<"C","o","n","f","e","r","e","n","c","e"," ","a","n","d"," ","W","o","r","k","s","h","o","p"," ","P","a","p","e","r","s">>))

\* a venue whose second word starts with a vertical tab, which parseInt skips
HitVerticalTab ==
    Info(One(<<"T","a","b">>), Authors(<<<<"G","r","a","c","e"," ","H","o","p","p","e","r">>>>), One(<<"2","0","1","5">>),
         One(<<"P","r","o","c">> \o <<" ", VerticalTab>> \o <<"2","0","2","1">>),
         Absent, Absent, One(<<"C","o","n","f","e","r","e","n","c","e"," ","a","n","d"," ","W","o","r","k","s","h","o","p"," ","P","a","p","e","r","s">>))

Hits == {HitAttention, HitBert, HitAdam, HitZero, HitLong, HitNoTitle, HitNoYear,
         HitNoAuthor, HitPlainAuthor, HitHex, HitVerticalTab}

NodeAttention ==
    Node(<<"A","t","t","e","n","t","i","o","n"," ","I","s"," ","A","l","l"," ","Y","o","u"," ","N","e","e","d">>, <<"A"," ","V","a","s","w","a","n","i",","," ","N"," ","S","h","a","z","e","e","r"," ","-"," ","N","e","u","r","I","P","S",","," ","2","0","1","7"," ","-"," ","n","e","u","r","i","p","s",".","c","c">>,
         <<"/","s","c","h","o","l","a","r","?","o","i","=","b","i","b","s","&","h","l","=","e","n","&","c","i","t","e","s","=","1">>)

NodeSmith == Node(<<"D","e","e","p"," ","N","e","t","s">>, <<"J","."," ","S","m","i","t","h",","," ","A","."," ","L","e","e"," ","-"," ","I","C","M","L"," ","-"," ","2","0","2","0">>, UNDEFINED)

NodeNoDash == Node(<<"O","l","d"," ","P","a","p","e","r">>, <<"J"," ","D","o","e"," ","1","9","9","9">>, UNDEFINED)

NodeNoTitle == Node(<<>>, <<"J"," ","D","o","e"," ","-"," ","I","C","M","L"," ","-"," ","2","0","2","0">>, UNDEFINED)

NodeNoYear == Node(<<"U","n","d","a","t","e","d">>, <<"J"," ","D","o","e"," ","-"," ","I","C","M","L">>, UNDEFINED)

\* the title, authors and year of NodeSmith at another venue
NodeSmithWorkshop == Node(<<"D","e","e","p"," ","N","e","t","s">>, <<"J","."," ","S","m","i","t","h",","," ","A","."," ","L","e","e"," ","-"," ","I","C","M","L"," ","W","o","r","k","s","h","o","p"," ","-"," ","2","0","2","0">>, UNDEFINED)

Nodes == {NodeAttention, NodeSmith, NodeNoDash, NodeNoTitle, NodeNoYear, NodeSmithWorkshop}

\* the sequences over S of length at most n
SeqsUpTo(S, n) == UNION {[1..m -> S] : m \in 0..n}

\* the documents xml2js hands to parseDBLPXML: ok is FALSE when parseString
\* reports an error
Document(hits) == [ok |-> TRUE, result |-> [hits |-> hits]]

Documents ==
    {[ok |-> FALSE, result |-> [hits |-> Absent]],
     Document(Absent), Document(Arr(<<>>)), Document(Arr(<<[hit |-> Absent]>>))}
    \cup {Document(Arr(<<[hit |-> Arr(h)]>>)) : h \in SeqsUpTo(Hits, MaxHits)}

Pages == SeqsUpTo(Nodes, MaxHits)

Databases == {PUBLICATION_DATABASE_OPTION_GOOGLE_SCHOLAR, PUBLICATION_DATABASE_OPTION_DBLP, "unset"}

-----------------------------------------------------------------------------
(* One search session.                                                     *)

Commands == {"google-scholar-bibtex.search", "bib-search.search"}

\* the first command does not read the setting: its sessions are taken with
\* the setting unset
Init ==
    /\ command \in Commands
    /\ config \in (IF command = "bib-search.search" THEN Databases ELSE {"unset"})
    /\ network \in BOOLEAN
    /\ html \in (IF command = "google-scholar-bibtex.search"
                     \/ config = PUBLICATION_DATABASE_OPTION_GOOGLE_SCHOLAR THEN Pages ELSE {<<>>})
    /\ xml \in (IF config = PUBLICATION_DATABASE_OPTION_DBLP THEN Documents ELSE {Document(Absent)})
    /\ activeTextEditor \in BOOLEAN
    /\ pc = "search"
    /\ searchResults = <<>>
    /\ quickPickOptions = <<>>
    /\ builtFrom = <<>>
    /\ selections = <<>>
    /\ i = 0
    /\ resolved = <<>>
    /\ sink = <<>>
    /\ messages = <<>>
    /\ stages = {}
    /\ thrown = ""
    /\ rawAuthor = <<>>
    /\ stripped = <<>>

\* Reject, were the error caught and the session continued without results
Reject_swallowed(error) ==
    /\ pc' = "rank"
    /\ thrown' = error
    /\ UNCHANGED <<command, rawAuthor, stripped, config, network, html, xml, activeTextEditor, searchResults,
                   quickPickOptions, builtFrom, selections, i, resolved, sink>>

\* the handler rejects: nothing after the throw is run
Reject(error) ==
    /\ pc' = "rejected"
    /\ thrown' = error
    /\ UNCHANGED <<command, rawAuthor, stripped, config, network, html, xml, activeTextEditor, searchResults,
                   quickPickOptions, builtFrom, selections, i, resolved, sink>>

\* fetchGoogleScholarHTML: axios.get resolves
FetchGoogleScholarHTML ==
    /\ command = "bib-search.search"
    /\ pc = "search"
    /\ config = PUBLICATION_DATABASE_OPTION_GOOGLE_SCHOLAR
    /\ network
    /\ pc' = "parse"
    /\ stages' = stages \cup {"fetch"}
    /\ UNCHANGED <<command, rawAuthor, stripped, config, network, html, xml, activeTextEditor, searchResults,
                   quickPickOptions, builtFrom, selections, i, resolved, sink,
                   messages, thrown>>

\* fetchDBLPXML: axios.get resolves
FetchDBLPXML ==
    /\ command = "bib-search.search"
    /\ pc = "search"
    /\ config = PUBLICATION_DATABASE_OPTION_DBLP
    /\ network
    /\ pc' = "parse"
    /\ stages' = stages \cup {"fetch"}
    /\ UNCHANGED <<command, rawAuthor, stripped, config, network, html, xml, activeTextEditor, searchResults,
                   quickPickOptions, builtFrom, selections, i, resolved, sink,
                   messages, thrown>>

\* fetchGoogleScholarHTML: axios.get rejects
FetchGoogleScholarHTMLFails ==
    /\ command = "bib-search.search"
    /\ pc = "search"
    /\ config = PUBLICATION_DATABASE_OPTION_GOOGLE_SCHOLAR
    /\ ~network
    /\ Reject("Error fetching Google Scholar HTML")
    /\ UNCHANGED <<messages, stages>>

\* an await of showErrorMessage: the message is shown and the handler waits
\* at the position given until the user dismisses it
AwaitMessage(message, position) ==
    /\ messages' = Append(messages, message)
    /\ pc' = position
    /\ UNCHANGED <<command, rawAuthor, stripped, config, network, html, xml, activeTextEditor,
                   searchResults, quickPickOptions, builtFrom, selections, i, resolved,
                   sink, stages, thrown>>

\* fetchDBLPXML: axios.get rejects, the error message is shown
FetchDBLPXMLFails ==
    /\ command = "bib-search.search"
    /\ pc = "search"
    /\ config = PUBLICATION_DATABASE_OPTION_DBLP
    /\ ~network
    /\ AwaitMessage("Error fetching data from DBLP", "fetchError")

\* fetchDBLPXML: the message is dismissed, the error is thrown
FetchDBLPXMLThrows ==
    /\ pc = "fetchError"
    /\ Reject("Error fetching data from DBLP")
    /\ UNCHANGED <<messages, stages>>

\* searchPublicationDatabase: neither database is configured
NoDatabase ==
    /\ command = "bib-search.search"
    /\ pc = "search"
    /\ config \notin {PUBLICATION_DATABASE_OPTION_GOOGLE_SCHOLAR, PUBLICATION_DATABASE_OPTION_DBLP}
    /\ searchResults' = <<>>
    /\ pc' = "rank"
    /\ UNCHANGED <<command, rawAuthor, stripped, config, network, html, xml, activeTextEditor,
                   quickPickOptions, builtFrom, selections, i, resolved, sink,
                   messages, stages, thrown>>

\* searchPublicationDatabase, Google Scholar branch
ParseGoogleScholarHTML ==
    /\ pc = "parse"
    /\ config = PUBLICATION_DATABASE_OPTION_GOOGLE_SCHOLAR
    /\ searchResults' = parseGoogleScholarHTML(html)
    /\ pc' = "rank"
    /\ stages' = stages \cup {"parse"}
    /\ UNCHANGED <<command, rawAuthor, stripped, config, network, html, xml, activeTextEditor,
                   quickPickOptions, builtFrom, selections, i, resolved, sink,
                   messages, thrown>>

\* parseDBLPXML: there is no hit, "No results found." is shown
ParseDBLPXMLNoResults ==
    /\ pc = "parse"
    /\ config = PUBLICATION_DATABASE_OPTION_DBLP
    /\ xml.ok
    /\ noHits(xml.result) = TRUE
    /\ AwaitMessage("No results found.", "noResults")

\* parseDBLPXML: the message is dismissed, the empty array is returned
ParseDBLPXMLReturnsEmpty ==
    /\ pc = "noResults"
    /\ searchResults' = <<>>
    /\ pc' = "rank"
    /\ stages' = stages \cup {"parse"}
    /\ UNCHANGED <<command, rawAuthor, stripped, config, network, html, xml, activeTextEditor,
                   quickPickOptions, builtFrom, selections, i, resolved, sink,
                   messages, thrown>>

\* searchPublicationDatabase, DBLP branch: there are hits, parseDBLPXML
\* returns the Publications of those it keeps
ParseDBLPXML ==
    /\ pc = "parse"
    /\ config = PUBLICATION_DATABASE_OPTION_DBLP
    /\ xml.ok
    /\ ~noHits(xml.result)
    /\ ~dblpThrows(xml.result)
    /\ searchResults' = parseDBLPXML(xml.result)
    /\ pc' = "rank"
    /\ stages' = stages \cup {"parse"}
    /\ UNCHANGED <<command, rawAuthor, stripped, config, network, html, xml, activeTextEditor,
                   quickPickOptions, builtFrom, selections, i, resolved, sink,
                   messages, thrown>>

\* parseDBLPXML: parseString reports an error, the error message is shown
ParseDBLPXMLFails ==
    /\ pc = "parse"
    /\ config = PUBLICATION_DATABASE_OPTION_DBLP
    /\ ~xml.ok
    /\ AwaitMessage("Error parsing XML", "parseError")

\* parseDBLPXML: the message is dismissed, the promise is rejected with the
\* error of xml2js
ParseDBLPXMLRejects ==
    /\ pc = "parseError"
    /\ Reject("xml2js error")
    /\ UNCHANGED <<messages, stages>>

\* parseDBLPXML: a hit has an authors element without author children
ParseDBLPXMLThrows ==
    /\ pc = "parse"
    /\ config = PUBLICATION_DATABASE_OPTION_DBLP
    /\ xml.ok
    /\ dblpThrows(xml.result)
    /\ Reject("TypeError in parseDBLPXML")
    /\ UNCHANGED <<messages, stages>>

\* searchQueryHandler: createQuickPickOptions(searchResults)
CreateQuickPickOptions ==
    /\ pc = "rank"
    /\ ~createQuickPickOptionsThrows(searchResults)
    /\ LET r == createQuickPickOptions(searchResults)
       IN  /\ quickPickOptions' = r.quickPickOptions
           /\ builtFrom' = r.builtFrom
           /\ searchResults' = r.searchResults
    /\ pc' = "pick"
    /\ stages' = stages \cup {"rank"}
    /\ UNCHANGED <<command, rawAuthor, stripped, config, network, html, xml, activeTextEditor,
                   selections, i, resolved, sink, messages, thrown>>

CreateQuickPickOptionsThrows ==
    /\ pc = "rank"
    /\ createQuickPickOptionsThrows(searchResults)
    /\ Reject("TypeError in createQuickPickOptions")
    /\ UNCHANGED <<messages, stages>>

RECURSIVE ascending(_)
ascending(S) ==
    IF S = {} THEN <<>>
    ELSE LET m == CHOOSE x \in S : \A y \in S : x <= y
         IN  <<m>> \o ascending(S \ {m})

\* what showQuickPick can resolve to when the user accepts: the picked
\* items in the order of the list; a separator cannot be picked
Selections(options) ==
    {ascending(S) : S \in SUBSET {k \in DOMAIN options : ~isSeparator(options[k])}}

\* searchQueryHandler: showQuickPick resolves to the picked items
ShowQuickPick ==
    /\ pc = "pick"
    /\ \E picked \in Selections(quickPickOptions) :
          /\ selections' = picked
          /\ pc' = IF Len(picked) = 0 THEN "returned" ELSE "insert"
    /\ stages' = stages \cup {"pick"}
    /\ UNCHANGED <<command, rawAuthor, stripped, config, network, html, xml, activeTextEditor, searchResults,
                   quickPickOptions, builtFrom, i, resolved, sink, messages, thrown>>

\* searchQueryHandler: the user dismisses the list, showQuickPick resolves
\* to undefined
DismissQuickPick ==
    /\ pc = "pick"
    /\ pc' = "returned"
    /\ stages' = stages \cup {"pick", "dismissed"}
    /\ UNCHANGED <<command, rawAuthor, stripped, config, network, html, xml, activeTextEditor, searchResults,
                   quickPickOptions, builtFrom, selections, i, resolved, sink,
                   messages, thrown>>

\* searchQueryHandler: one iteration of the for-loop that ends normally
InsertSnippet ==
    /\ pc = "insert"
    /\ LET pos == selections[i + 1]
           publication == originalPublication(searchResults, pos)
       IN  /\ publication # UndefinedPublication
           /\ resolved' = Append(resolved, [pos |-> pos, index |-> pos, editor |-> activeTextEditor,
                                           written |-> activeTextEditor])
           /\ sink' = IF activeTextEditor THEN Append(sink, bibtex(publication)) ELSE sink
    /\ i' = i + 1
    /\ pc' = IF i + 1 = Len(selections) THEN "returned" ELSE "insert"
    /\ stages' = stages \cup {"insert"}
    /\ UNCHANGED <<command, rawAuthor, stripped, config, network, html, xml, activeTextEditor, searchResults,
                   quickPickOptions, builtFrom, selections, messages, thrown>>

\* searchQueryHandler: one iteration of the for-loop, originalPublication
\* is undefined and reading its authors throws
InsertSnippetThrows ==
    /\ pc = "insert"
    /\ originalPublication(searchResults, selections[i + 1]) = UndefinedPublication
    /\ resolved' = Append(resolved, [pos |-> selections[i + 1], index |-> 0,
                                    editor |-> activeTextEditor, written |-> FALSE])
    /\ pc' = "rejected"
    /\ thrown' = "TypeError in searchQueryHandler"
    /\ stages' = stages \cup {"insert"}
    /\ UNCHANGED <<command, rawAuthor, stripped, config, network, html, xml, activeTextEditor, searchResults,
                   quickPickOptions, builtFrom, selections, i, sink, messages>>

\* first variant, fetchGoogleScholarHTML: axios.get resolves
FetchGoogleScholarHTMLFirst ==
    /\ command = "google-scholar-bibtex.search"
    /\ pc = "search"
    /\ network
    /\ pc' = "first:parse"
    /\ stages' = stages \cup {"fetch"}
    /\ UNCHANGED <<command, rawAuthor, stripped, config, network, html, xml, activeTextEditor, searchResults,
                   quickPickOptions, builtFrom, selections, i, resolved, sink,
                   messages, thrown>>

\* first variant, fetchGoogleScholarHTML: axios.get rejects
FetchGoogleScholarHTMLFirstFails ==
    /\ command = "google-scholar-bibtex.search"
    /\ pc = "search"
    /\ ~network
    /\ Reject("Error fetching Google Scholar HTML")
    /\ UNCHANGED <<messages, stages>>

\* first variant, searchGoogleScholar: the page is parsed
ParseGoogleScholarHTMLFirst ==
    /\ pc = "first:parse"
    /\ searchResults' = parseGoogleScholarHTMLFirst(html)
    /\ pc' = "first:options"
    /\ stages' = stages \cup {"parse"}
    /\ UNCHANGED <<command, rawAuthor, stripped, config, network, html, xml, activeTextEditor,
                   quickPickOptions, builtFrom, selections, i, resolved, sink,
                   messages, thrown>>

\* first variant, searchQueryHandler: the options are built and shown
CreateQuickPickOptionsFirst ==
    /\ pc = "first:options"
    /\ quickPickOptions' = createQuickPickOptionsFirst(searchResults)
    /\ builtFrom' = [k \in DOMAIN searchResults |-> k]
    /\ pc' = "first:pick"
    /\ stages' = stages \cup {"rank"}
    /\ UNCHANGED <<command, rawAuthor, stripped, config, network, html, xml, activeTextEditor,
                   searchResults, selections, i, resolved, sink, messages, thrown>>

\* first variant, searchQueryHandler: showQuickPick resolves to the picked
\* strings, or to undefined when the user dismisses the list
ShowQuickPickFirst ==
    /\ pc = "first:pick"
    /\ \E picked \in {ascending(S) : S \in SUBSET DOMAIN quickPickOptions} :
          /\ selections' = picked
          /\ pc' = IF Len(picked) = 0 THEN "returned" ELSE "first:insert"
    /\ stages' = stages \cup {"pick"}
    /\ UNCHANGED <<command, rawAuthor, stripped, config, network, html, xml, activeTextEditor, searchResults,
                   quickPickOptions, builtFrom, i, resolved, sink, messages, thrown>>

\* first variant, searchQueryHandler: one iteration of the for-loop
InsertSnippetFirst ==
    /\ pc = "first:insert"
    /\ LET pos   == selections[i + 1]
           index == indexOf(quickPickOptions, quickPickOptions[pos])
       IN  /\ resolved' = Append(resolved, [pos |-> pos, index |-> index, editor |-> activeTextEditor,
                                           written |-> activeTextEditor])
           /\ sink' = IF activeTextEditor THEN Append(sink, bibtexFirst(searchResults[index])) ELSE sink
    /\ messages' = Append(messages, "Processing [object Object].")
    /\ i' = i + 1
    /\ pc' = IF i + 1 = Len(selections) THEN "returned" ELSE "first:insert"
    /\ stages' = stages \cup {"insert"}
    /\ UNCHANGED <<command, rawAuthor, stripped, config, network, html, xml, activeTextEditor, searchResults,
                   quickPickOptions, builtFrom, selections, thrown>>

\* searchQueryHandler, either variant: the Publication is found, there is
\* an editor and the promise of insertSnippet rejects; nothing is written
InsertSnippetRejects ==
    /\ pc \in {"insert", "first:insert"}
    /\ activeTextEditor
    /\ LET pos   == selections[i + 1]
           index == IF pc = "insert" THEN pos ELSE indexOf(quickPickOptions, quickPickOptions[pos])
       IN  /\ index <= Len(searchResults)
           /\ resolved' = Append(resolved, [pos |-> pos, index |-> index, editor |-> TRUE,
                                           written |-> FALSE])
    /\ messages' = IF pc = "insert" THEN messages
                   ELSE Append(messages, "Processing [object Object].")
    /\ pc' = "rejected"
    /\ thrown' = "insertSnippet rejected"
    /\ stages' = stages \cup {"insert"}
    /\ UNCHANGED <<command, rawAuthor, stripped, config, network, html, xml, activeTextEditor, searchResults,
                   quickPickOptions, builtFrom, selections, i, sink>>

\* the editor is closed while the handler awaits insertSnippet (without an
\* editor the handler awaits undefined, and no callback runs before the next
\* iteration)
ActiveTextEditorChanges ==
    /\ pc \in {"insert", "first:insert"}
    /\ i >= 1
    /\ activeTextEditor
    /\ activeTextEditor' = FALSE
    /\ UNCHANGED <<command, rawAuthor, stripped, config, network, html, xml, pc,
                   searchResults, quickPickOptions, builtFrom, selections, i, resolved,
                   sink, messages, stages, thrown>>

Next ==
    \/ FetchGoogleScholarHTML
    \/ FetchDBLPXML
    \/ FetchGoogleScholarHTMLFails
    \/ FetchDBLPXMLFails
    \/ FetchDBLPXMLThrows
    \/ NoDatabase
    \/ ParseGoogleScholarHTML
    \/ ParseDBLPXMLNoResults
    \/ ParseDBLPXMLReturnsEmpty
    \/ ParseDBLPXML
    \/ ParseDBLPXMLFails
    \/ ParseDBLPXMLRejects
    \/ ParseDBLPXMLThrows
    \/ ActiveTextEditorChanges
    \/ CreateQuickPickOptions
    \/ CreateQuickPickOptionsThrows
    \/ ShowQuickPick
    \/ DismissQuickPick
    \/ InsertSnippet
    \/ InsertSnippetThrows
    \/ FetchGoogleScholarHTMLFirst
    \/ FetchGoogleScholarHTMLFirstFails
    \/ ParseGoogleScholarHTMLFirst
    \/ CreateQuickPickOptionsFirst
    \/ ShowQuickPickFirst
    \/ InsertSnippetFirst
    \/ InsertSnippetRejects

Spec == Init /\ [][Next]_vars

-----------------------------------------------------------------------------
(* The strip step on its own: an author string is drawn and the step is    *)
(* applied to it, then to its result.                                      *)

AuthorChars == {"a", "1", " "}

AuthorStrings == SeqsUpTo(AuthorChars, MaxAuthorLen)

StripInit ==
    /\ rawAuthor \in AuthorStrings
    /\ command = "bib-search.search"
    /\ stripped = <<>>
    /\ config = "unset"
    /\ network = FALSE
    /\ html = <<>>
    /\ xml = Document(Absent)
    /\ activeTextEditor = FALSE
    /\ pc = "strip"
    /\ searchResults = <<>>
    /\ quickPickOptions = <<>>
    /\ builtFrom = <<>>
    /\ selections = <<>>
    /\ i = 0
    /\ resolved = <<>>
    /\ sink = <<>>
    /\ messages = <<>>
    /\ stages = {}
    /\ thrown = ""

\* the strip step, applied to the author string
StripAuthor ==
    /\ pc = "strip"
    /\ stripped = <<>>
    /\ stripped' = <<stripAuthor(rawAuthor)>>
    /\ UNCHANGED <<command, rawAuthor, config, network, html, xml, activeTextEditor, pc,
                   searchResults, quickPickOptions, builtFrom, selections, i,
                   resolved, sink, messages, stages, thrown>>

\* the strip step, applied to its own last result
StripAgain ==
    /\ pc = "strip"
    /\ Len(stripped) >= 1
    /\ Len(stripped) < MaxStrips
    /\ stripped' = Append(stripped, stripAuthor(stripped[Len(stripped)]))
    /\ UNCHANGED <<command, rawAuthor, config, network, html, xml, activeTextEditor, pc,
                   searchResults, quickPickOptions, builtFrom, selections, i,
                   resolved, sink, messages, stages, thrown>>

StripNext ==
    \/ StripAuthor
    \/ StripAgain

StripSpec == StripInit /\ [][StripNext]_vars

-----------------------------------------------------------------------------
(* Properties of a session.                                                *)

\* the Publication the k-th finished loop iteration wrote a snippet for
writtenFor(k) == searchResults[resolved[k].index]

\* C1: every selection the handler has looked up was resolved to a
\* Publication, and to the one the selected option was built from.
C1_SelectionResolvesToItsPublication ==
    \A k \in DOMAIN resolved :
        /\ resolved[k].index # 0
        /\ searchResults[resolved[k].index] = searchResults[builtFrom[resolved[k].pos]]

lastToken(s) == split(s, " ")[Len(split(s, " "))]

\* the key of §4.5: the last token of the first author, once a numeric
\* trailing token is stripped, in lower case, then the year
surnameYearKey(publication) ==
    toLowerCase(lastToken(strippedAuthors(publication.authors)[1])) \o publication.year

\* the k-th loop iteration wrote a snippet: it found a Publication and an
\* editor, and insertSnippet resolved
wrote(k) == resolved[k].written

\* the snippet the k-th loop iteration wrote
snippetOf(k) == sink[Cardinality({j \in 1..k : wrote(j)})]

\* C2: the key of every snippet written by bib-search.search is the
\* lower-cased last token of the stripped first author followed by the year.
C2_KeyIsSurnameThenYear ==
    command = "bib-search.search" =>
        \A k \in DOMAIN resolved :
            wrote(k) => snippetOf(k).key = surnameYearKey(writtenFor(k))

optionalField(name, value) ==
    IF value = <<>> \/ value = UNDEFINED THEN <<>> ELSE << <<name, value>> >>

\* the fields of §4.5
fieldsInOrder(publication) ==
    << <<"title", publication.title>>,
       <<"author", join(publication.authors, <<" ","a","n","d"," ">>)>>,
       <<"year", publication.year>> >>
    \o optionalField("booktitle", publication.booktitle)
    \o optionalField("pages", publication.pages)
    \o optionalField("doi", publication.doi)

\* C3: every snippet written lists title, author, year and then venue,
\* pages and doi, each of the last three exactly when it is non-empty.
C3_FieldsInOrderOptionalIfPresent ==
    \A k \in DOMAIN resolved :
        wrote(k) => snippetOf(k).fields = fieldsInOrder(writtenFor(k))

isCanonical(publication) ==
    /\ publication.title # <<>>
    /\ Len(publication.authors) >= 1
    /\ Len(publication.year) = 4
    /\ matchAllDigits(publication.year)

\* C4: every Publication handed to createQuickPickOptions has a title, an
\* author and a 4-digit year.
C4_RankerInputIsCanonical ==
    pc = "rank" => \A k \in DOMAIN searchResults : isCanonical(searchResults[k])

FetchOrParseFailures ==
    {"Error fetching Google Scholar HTML", "Error fetching data from DBLP",
     "xml2js error", "TypeError in parseDBLPXML"}

\* the fetch or the parse has failed: its error is thrown, or its error
\* message is shown and the throw waits for the message to be dismissed
fetchOrParseFailed == pc \in {"fetchError", "parseError"} \/ thrown \in FetchOrParseFailures

\* C5: a session whose fetch or parse failed has neither ranked, nor
\* prompted, nor written anything, and once the failure is thrown the
\* handler has rejected with it.
C5_FetchOrParseFailureAborts ==
    fetchOrParseFailed =>
        /\ thrown \in FetchOrParseFailures => pc = "rejected"
        /\ thrown \notin FetchOrParseFailures => thrown = ""
        /\ stages \subseteq {"fetch"}
        /\ quickPickOptions = <<>>
        /\ selections = <<>>
        /\ sink = <<>>

C5_Witness ==
    /\ thrown = "xml2js error"
    /\ pc = "rejected"
    /\ stages = {"fetch"}
    /\ messages = <<"Error parsing XML">>

\* C6: once the handler of bib-search.search has ended after a non-empty
\* selection, with an editor at every iteration and no insertSnippet
\* rejected, the sink holds one snippet per selection, the k-th being the
\* snippet of the Publication the k-th selected option was built from.
C6_OneWritePerSelectionInOrder ==
    (/\ command = "bib-search.search"
     /\ pc \in {"returned", "rejected"}
     /\ Len(selections) > 0
     /\ \A k \in DOMAIN resolved : resolved[k].editor
     /\ thrown # "insertSnippet rejected") =>
        /\ Len(sink) = Len(selections)
        /\ \A k \in DOMAIN sink :
              sink[k] = bibtex(searchResults[builtFrom[selections[k]]])

\* the DBLP payload was fetched and parsed, and has no hit list or an empty one
payloadHasNoHits ==
    /\ config = PUBLICATION_DATABASE_OPTION_DBLP
    /\ network
    /\ xml.ok
    /\ \/ ~xml.result.hits.p
       \/ Len(xml.result.hits.v) = 0
       \/ ~xml.result.hits.v[1].hit.p
       \/ Len(xml.result.hits.v[1].hit.v) = 0

\* C7: on a DBLP payload without hits nothing is thrown, the parser
\* returns the empty sequence, createQuickPickOptions returns the empty
\* list and nothing is written.
C7_NoHitsEndsQuietly ==
    payloadHasNoHits =>
        /\ thrown = ""
        /\ pc # "rejected"
        /\ searchResults = <<>>
        /\ quickPickOptions = <<>>
        /\ selections = <<>>
        /\ pc # "insert"
        /\ sink = <<>>

C7_Witness ==
    /\ payloadHasNoHits
    /\ pc = "returned"
    /\ {"parse", "rank", "pick"} \subseteq stages
    /\ messages = <<"No results found.">>

yearNumber(publication) == digitsValue(publication.year, 0)

\* year descending, then title ascending
rankedBefore(p, q) ==
    \/ yearNumber(p) > yearNumber(q)
    \/ yearNumber(p) = yearNumber(q) /\ localeCompare(p.title, q.title) <= 0

\* C8: two neighbouring options under one heading are in the order of
\* their Publications: year descending, then title ascending.
C8_BlockSortedByYearThenTitle ==
    pc = "pick" =>
        \A p \in 1..(Len(quickPickOptions) - 1) :
            (/\ ~isSeparator(quickPickOptions[p])
             /\ ~isSeparator(quickPickOptions[p + 1])
             /\ isCanonical(searchResults[builtFrom[p]])
             /\ isCanonical(searchResults[builtFrom[p + 1]]))
            => rankedBefore(searchResults[builtFrom[p]], searchResults[builtFrom[p + 1]])

\* the type tag contains the word, whatever the case of its letters
typeContains(type, word) ==
    /\ type # UNDEFINED
    /\ \E k \in 1..Len(type) :
          /\ k + Len(word) - 1 <= Len(type)
          /\ \A j \in 1..Len(word) : toLowerCase(<<type[k + j - 1]>>) = <<word[j]>>

\* the position in Categories of the category of a Publication
categoryIndex(publication) ==
    IF typeContains(publication.type, <<"c","o","n","f","e","r","e","n","c","e">>) THEN 1
    ELSE IF typeContains(publication.type, <<"j","o","u","r","n","a","l">>) THEN 2
    ELSE 3

membersOf(c) == {k \in DOMAIN searchResults : categoryIndex(searchResults[k]) = c}

blockSize(c) == IF membersOf(c) = {} THEN 0 ELSE 1 + Cardinality(membersOf(c))

RECURSIVE blockStart(_)
blockStart(c) == IF c = 1 THEN 1 ELSE blockStart(c - 1) + blockSize(c - 1)

isBlockOf(c, start, members) ==
    /\ isSeparator(quickPickOptions[start])
    /\ quickPickOptions[start].label = Categories[c]
    /\ \A p \in (start + 1)..(start + Cardinality(members)) :
          /\ ~isSeparator(quickPickOptions[p])
          /\ builtFrom[p] \in members
          /\ quickPickOptions[p] = transformPublication(searchResults[builtFrom[p]])
    /\ {builtFrom[p] : p \in (start + 1)..(start + Cardinality(members))} = members

\* C9: the options are, for Conference, Journal and Other in this order,
\* one separator labelled with the category and one item per Publication
\* of the category, and nothing for a category without Publication.
C9_OptionsAreCategoryBlocks ==
    pc = "pick" =>
        /\ Len(quickPickOptions) = blockStart(4) - 1
        /\ \A c \in 1..3 : membersOf(c) # {} => isBlockOf(c, blockStart(c), membersOf(c))

C9_Witness ==
    /\ pc = "pick"
    /\ \E c \in 1..3 : Cardinality(membersOf(c)) >= 2
    /\ \E c \in 1..3 : membersOf(c) = {}
    /\ Cardinality({p \in DOMAIN quickPickOptions : isSeparator(quickPickOptions[p])}) = 2
    /\ \E k \in DOMAIN searchResults :
          /\ typeContains(searchResults[k].type, <<"j","o","u","r","n","a","l">>)
          /\ categoryIndex(searchResults[k]) = 1

\* C10: the call of createQuickPickOptions leaves searchResults, the
\* Publications and their order, as it was.
C10_RankingLeavesResultsUnchanged ==
    [][(pc = "rank" /\ pc' = "pick") => searchResults' = searchResults]_vars

C10_Witness ==
    /\ pc = "pick"
    /\ \E p \in DOMAIN quickPickOptions :
          /\ ~isSeparator(quickPickOptions[p])
          /\ Len(searchResults[builtFrom[p]].title) + Len(searchResults[builtFrom[p]].booktitle) > 75
          /\ Len(join(searchResults[builtFrom[p]].authors, <<","," ">>)) > 80
          /\ quickPickOptions[p].label # searchResults[builtFrom[p]].title
          /\ quickPickOptions[p].detail # join(searchResults[builtFrom[p]].authors, <<","," ">>)

\* C11 as stated: the strip step applied twice gives what it gives applied once.
C11_StripIsIdempotent ==
    Len(stripped) >= 2 => stripped[2] = stripped[1]

isNumericToken(tokens, k) == k >= 1 /\ matchAllDigits(tokens[k])

\* the author string has three tokens or more, the last two purely numeric
endsWithTwoNumericTokens(name) ==
    /\ Len(split(name, " ")) >= 3
    /\ isNumericToken(split(name, " "), Len(split(name, " ")))
    /\ isNumericToken(split(name, " "), Len(split(name, " ")) - 1)

\* C11, amended: for an author string that does not end with two purely
\* numeric tokens after a first one, the strip step applied twice gives
\* what it gives applied once.
C11_StripIsIdempotentButForTwoNumericTokens ==
    (Len(stripped) >= 2 /\ ~endsWithTwoNumericTokens(rawAuthor)) => stripped[2] = stripped[1]

C11_Witness ==
    /\ Len(stripped) >= 2
    /\ ~endsWithTwoNumericTokens(rawAuthor)
    /\ Len(split(rawAuthor, " ")) >= 3
    /\ stripped[1] # rawAuthor
    /\ stripped[2] = stripped[1]
====
